---- MODULE Spec2Model ----
(***************************************************************************)
(* A model of the news-comment pipeline of src/myhexin/新闻评论AI.py:       *)
(* NewsContentExtractor, NewsAnalyzer, RedditMiner, CommentGenerator,      *)
(* ImageGenerator and the orchestrator NewsCommentBot.                     *)
(*                                                                         *)
(* Python values are tagged records [t, v]; an operator that can raise     *)
(* returns Ret(value) or Raise(exception name).  Text is a sequence of     *)
(* atoms [w, n]: a word w of n characters, or a run of n filler            *)
(* characters (w = "x"); the code only ever looks at a text's length, at   *)
(* the words it contains and at its '?' characters.                        *)
(***************************************************************************)
EXTENDS Integers, Sequences, FiniteSets, TLC

VARIABLES
    cls_in,        \* _classify_comment_style: the comment text passed in
    cls_out,       \* _classify_comment_style: the returned style, or Pending
    reddit,        \* the discourse service: what a search yields
    mine_in,       \* find_related_discussions: its arguments, or Pending
    mine_out,      \* find_related_discussions: its outcome, or Pending
    ana_in,        \* analyze_news: the text-generation response it got
    ana_out,       \* analyze_news: its outcome, or Pending
    gen_in,        \* generate_comments: the response to each style's request
    gen_out,       \* generate_comments: its outcome, or Pending
    pc,            \* process_news_url: the stage to run next
    config,        \* NewsCommentBot: the configuration it was built from
    fetch,         \* what the HTTP request of extract_content met
    news_data,     \* process_news_url: the extracted document, or Pending
    generated_comments, \* process_news_url: the comments, image_url set in place
    result,        \* process_news_url: the returned dict, or Pending
    calls,         \* process_news_url: the stage calls made so far, in order
    requests,      \* the requests sent to external services so far, in order
    img_in,        \* generate_comment_image: its arguments and what it meets
    img_out,       \* generate_comment_image: its outcome, or Pending
    soup,          \* _extract_article_text: the parsed page
    article_text,  \* _extract_article_text: the returned body, or Pending
    export_in,     \* export_result: the result passed in and what open() meets
    export_out,    \* export_result: the result after the call, the file, the outcome
    openai_api_key, \* the module attribute openai.api_key
    bots           \* the NewsCommentBot objects of one process

vars == <<cls_in, cls_out, reddit, mine_in, mine_out, ana_in, ana_out,
          gen_in, gen_out, pc, config, fetch, news_data, generated_comments,
          result, calls, requests, img_in, img_out, soup, article_text,
          export_in, export_out, openai_api_key, bots>>

\* ------------------------------------------------------------ Python values

Pending == [t |-> "pending", v |-> 0]
PyNone == [t |-> "none", v |-> 0]
PyStr(s) == [t |-> "str", v |-> s]
PyList(s) == [t |-> "list", v |-> s]
PyNum(n) == [t |-> "num", v |-> n]
PyDict(f) == [t |-> "dict", v |-> f]

\* The outcome of a call: a returned value or a raised exception.
Ret(x) == [t |-> "ret", v |-> x]
Raise(e) == [t |-> "raise", v |-> e]
IsRaise(o) == o.t = "raise"

Min(a, b) == IF a <= b THEN a ELSE b

\* s[:n] on a sequence
Slice(s, n) == SubSeq(s, 1, Min(n, Len(s)))

\* ------------------------------------------------------------------- text

Word(w, n) == [w |-> w, n |-> n]
Filler(n) == [w |-> "x", n |-> n]

RECURSIVE TextLen(_)
\* len(text)
TextLen(text) ==
    IF text = <<>> THEN 0 ELSE Head(text).n + TextLen(Tail(text))

\* str.lower() on one word
LowerWord(w) ==
    CASE w = "STUPID" -> "stupid"
      [] w = "Wrong" -> "wrong"
      [] w = "LOL" -> "lol"
      [] w = "Haha" -> "haha"
      [] OTHER -> w

\* str.lower()
Lower(text) == [i \in 1..Len(text) |-> Word(LowerWord(text[i].w), text[i].n)]

\* word in text
Contains(text, word) == \E i \in 1..Len(text) : text[i].w = word

\* text.count('?')
CountQ(text) == Cardinality({i \in 1..Len(text) : text[i].w = "?"})

RECURSIVE TextSlice(_, _)
\* text[:n]: an atom cut in the middle leaves a fragment that is no word
TextSlice(text, n) ==
    IF text = <<>> \/ n <= 0 THEN <<>>
    ELSE IF Head(text).n <= n
         THEN <<Head(text)>> \o TextSlice(Tail(text), n - Head(text).n)
         ELSE <<Word(IF Head(text).w = "x" THEN "x" ELSE "~", n)>>

\* --------------------------------------------------- _classify_comment_style

ProvocationLexicon == {"stupid", "wrong", "disagree", "ridiculous"}
\* ":joy:" stands for the emoji U+1F602 of the source list
HumorLexicon == {"lol", "funny", "joke", "haha", ":joy:"}
QuestionMarks == 2
InsightfulLen == 200

ReferenceStyles == {"provocative", "witty", "question", "insightful", "neutral"}

\* A slip in the cascade: the humor rule tested before the provocation rule.
classify_humor_first(comment) ==
    LET comment_lower == Lower(comment) IN
    IF \E word \in HumorLexicon : Contains(comment_lower, word) THEN "witty"
    ELSE IF \E word \in ProvocationLexicon : Contains(comment_lower, word)
         THEN "provocative"
    ELSE IF CountQ(comment) >= QuestionMarks THEN "question"
    ELSE IF TextLen(comment) > InsightfulLen THEN "insightful"
    ELSE "neutral"

classify_comment_style(comment) ==
    LET comment_lower == Lower(comment) IN
    IF \E word \in ProvocationLexicon : Contains(comment_lower, word)
        THEN "provocative"
    ELSE IF \E word \in HumorLexicon : Contains(comment_lower, word) THEN "witty"
    ELSE IF CountQ(comment) >= QuestionMarks THEN "question"
    ELSE IF TextLen(comment) > InsightfulLen THEN "insightful"
    ELSE "neutral"

\* The atoms the classified texts are built from.
ClassifyAtoms ==
    { Word("STUPID", 6), Word("wrong", 5), Word("LOL", 3), Word(":joy:", 1),
      Word("?", 1), Filler(1), Filler(100) }

MaxAtoms == 3

Texts == UNION { [1..k -> ClassifyAtoms] : k \in 0..MaxAtoms }

ClassifyIdle == cls_in = <<>> /\ cls_out = Pending

ClassifyInit == cls_in \in Texts /\ cls_out = Pending

Classify ==
    /\ cls_out = Pending
    /\ cls_out' = PyStr(classify_comment_style(cls_in))
    /\ UNCHANGED cls_in

\* -------------------------------------------------- find_related_discussions

MinCommentLen == 50
MinScore == 10
CommentsPerSubmission == 5
ReferenceTextLen == 300
AwardWeight == 10
MaxReferences == 5
QueryKeywords == 3
DefaultLimit == 10

\* x.score + x.awards * 10, the sort key
SortKey(ref) == ref.score + ref.awards * AwardWeight

RECURSIVE InsertDesc(_, _)
\* e goes before the first element whose key is not greater than its own
InsertDesc(e, s) ==
    IF s = <<>> THEN <<e>>
    ELSE IF Head(s).key > e.key
         THEN <<Head(s)>> \o InsertDesc(e, Tail(s))
         ELSE <<e>> \o s

RECURSIVE SortDesc(_)
\* list.sort(reverse=True) on [key, item] pairs: descending and stable
SortDesc(s) ==
    IF s = <<>> THEN <<>>
    ELSE InsertDesc(Head(s), SortDesc(Tail(s)))

\* sorted(items, key=..., reverse=True), the keys given beside the items
SortedDesc(keys, items) ==
    LET sorted == SortDesc([i \in 1..Len(items) |-> [key |-> keys[i], item |-> items[i]]])
    IN  [i \in 1..Len(items) |-> sorted[i].item]

\* separator.join(items): a TypeError unless every item is a str
Join(items) ==
    IF \A i \in 1..Len(items) : items[i].t = "str"
    THEN Ret([i \in 1..Len(items) |-> items[i].v])
    ELSE Raise("TypeError")

\* The filter with the length test left out.
KeepComment_score_only(comment) == comment.score > MinScore

\* len(comment.body) > 50 and comment.score > 10
KeepComment(comment) ==
    TextLen(comment.body) > MinCommentLen /\ comment.score > MinScore

\* RedditReference(...) built from a retained comment
MakeReference(comment, submission) ==
    [ comment |-> TextSlice(comment.body, ReferenceTextLen),
      score |-> comment.score,
      awards |-> IF comment.has_awardings THEN comment.all_awardings ELSE 0,
      subreddit |-> submission.subreddit,
      style |-> classify_comment_style(comment.body) ]

RECURSIVE SubmissionReferences(_, _)
\* the inner loop: for comment in submission.comments[:5]
SubmissionReferences(comments, submission) ==
    IF comments = <<>> THEN <<>>
    ELSE (IF KeepComment(Head(comments))
          THEN <<MakeReference(Head(comments), submission)>>
          ELSE <<>>)
         \o SubmissionReferences(Tail(comments), submission)

RECURSIVE CollectReferences(_)
\* the outer loop over the submissions the search yields
CollectReferences(subs) ==
    IF subs = <<>> THEN <<>>
    ELSE SubmissionReferences(
             Slice(Head(subs).comments, CommentsPerSubmission), Head(subs))
         \o CollectReferences(Tail(subs))

\* What one search call sees of the service: the submissions it yields, at
\* most `limit`, and whether the listing or the expansion of the next
\* submission's comments fails once those are consumed.
Yielded(service, limit) == Slice(service.subs, limit)
Outage(service, limit, outage) ==
    IF limit > Len(service.subs) THEN outage ELSE "none"

\* The ranking left out: the first five in the order collected.
TopReferences_unsorted(references) == Slice(references, MaxReferences)

\* references.sort(...); return references[:5]
TopReferences(references) ==
    Slice(SortedDesc([i \in 1..Len(references) |-> SortKey(references[i])],
                     references),
          MaxReferences)

\* The handler returning what it had collected when the service failed.
OnSearchFailure_partial(references) == TopReferences(references)

\* except Exception: return []
OnSearchFailure(references) == <<>>

find_related_discussions(keywords, limit, service, outage) ==
    LET query == Join(Slice(keywords, QueryKeywords))
        references == CollectReferences(Yielded(service, limit))
    IN  IF IsRaise(query) THEN query
        ELSE IF Outage(service, limit, outage) # "none"
             THEN Ret(OnSearchFailure(references))
             ELSE Ret(TopReferences(references))

\* The requests of one call: none when the query cannot be joined; else the
\* search, then the comments of each submission read, the one whose
\* expansion fails included.
MinerRequests(keywords, limit, service, outage) ==
    LET subs == Yielded(service, limit) IN
    IF IsRaise(Join(Slice(keywords, QueryKeywords))) THEN <<>>
    ELSE <<[kind |-> "search", key |-> "all", item |-> 0, body |-> <<>>]>>
         \o [i \in 1..Len(subs) |->
                [kind |-> "comments", key |-> subs[i].subreddit, item |-> 0,
                 body |-> <<>>]]
         \o (IF Outage(service, limit, outage) = "expand"
             THEN <<[kind |-> "comments", key |-> "next", item |-> 0, body |-> <<>>]>>
             ELSE <<>>)

\* The comments a submission can hold: two that pass the filter (the first
\* ranks higher by its award although its score is lower, and is longer than
\* a reference keeps), one that fails on its score alone and one that fails
\* on its length alone.
Awarded ==
    [ body |-> <<Filler(200), Filler(100), Word("?", 1)>>, score |-> 11,
      has_awardings |-> TRUE, all_awardings |-> 1 ]
Upvoted ==
    [ body |-> <<Filler(50), Word("LOL", 3)>>, score |-> 20,
      has_awardings |-> FALSE, all_awardings |-> 0 ]
LowScore ==
    [ body |-> <<Filler(50), Word("?", 1)>>, score |-> 10,
      has_awardings |-> TRUE, all_awardings |-> 2 ]
TooShort ==
    [ body |-> <<Filler(50)>>, score |-> 30,
      has_awardings |-> TRUE, all_awardings |-> 0 ]
CommentPool == {Awarded, Upvoted, LowScore, TooShort}

\* The threads a submission can start with: none of its comments yet, or a
\* busy thread of six, one more than the miner reads.
Threads == { <<>>, <<Upvoted, Awarded, Upvoted, TooShort, Awarded, Awarded>> }

\* The communities of the submissions a search can yield, in listing order.
Subreddits == <<"news", "funny">>

\* The comments posted one by one after their submission appeared.
MaxComments == 4

\* The calls made: the keywords (a non-str keyword reaches the query join),
\* the limit, and what the service does once the yielded submissions are
\* consumed.
SearchCalls ==
    { [keywords |-> <<PyStr("tax")>>, limit |-> DefaultLimit, outage |-> o] :
        o \in {"none", "search", "expand"} }
    \cup
    { [keywords |-> <<PyStr("tax"), PyStr("cut"), PyStr("law"), PyNum(7)>>,
       limit |-> 1, outage |-> "none"],
      [keywords |-> <<>>, limit |-> 1, outage |-> "search"],
      [keywords |-> <<PyStr("tax"), PyNum(7)>>, limit |-> DefaultLimit,
       outage |-> "search"] }

MinerIdle ==
    /\ reddit = [subs |-> <<>>, posted |-> 0]
    /\ mine_in = Pending
    /\ mine_out = Pending

\* A submission appears in the listing.
PostSubmission ==
    /\ mine_out = Pending
    /\ Len(reddit.subs) < Len(Subreddits)
    /\ \E thread \in Threads :
         reddit' = [reddit EXCEPT !.subs = Append(@,
                      [comments |-> thread,
                       subreddit |-> Subreddits[Len(reddit.subs) + 1]])]
    /\ UNCHANGED <<mine_in, mine_out>>

\* A top-level comment is added to the latest submission.
PostComment ==
    /\ mine_out = Pending
    /\ reddit.subs # <<>>
    /\ reddit.posted < MaxComments
    /\ \E c \in CommentPool :
         LET k == Len(reddit.subs) IN
         reddit' = [reddit EXCEPT !.subs[k].comments = Append(@, c),
                                  !.posted = @ + 1]
    /\ UNCHANGED <<mine_in, mine_out>>

\* One call of find_related_discussions.
Search ==
    /\ mine_out = Pending
    /\ \E call \in SearchCalls :
         /\ mine_in' = call
         /\ mine_out' = find_related_discussions(
                            call.keywords, call.limit, reddit, call.outage)
    /\ UNCHANGED reddit

\* ------------------------------------------- text-generation responses

\* The text of a response is a sequence of pieces: a code-fence marker
\* ("```"), the word "json", a run of whitespace, or the serialised text of
\* one JSON value (the same value wherever the piece occurs).
ResponsePieces == {"fence", "json", "space", "value"}

ApiError == [t |-> "error", text |-> <<>>, value |-> PyNone]
NoContent == [t |-> "nocontent", text |-> <<>>, value |-> PyNone]
Message(text, value) == [t |-> "message", text |-> text, value |-> value]

RECURSIVE LStrip(_)
LStrip(text) ==
    IF text # <<>> /\ Head(text) = "space" THEN LStrip(Tail(text)) ELSE text

RECURSIVE RStrip(_)
RStrip(text) ==
    IF text # <<>> /\ text[Len(text)] = "space"
    THEN RStrip(SubSeq(text, 1, Len(text) - 1))
    ELSE text

\* str.strip()
Strip(text) == RStrip(LStrip(text))

\* raw_content.startswith("```")
StartsWithFence(text) == text # <<>> /\ Head(text) = "fence"

\* re.sub(r"^```(?:json)?\s*", "", raw_content)
StripOpeningFence(text) ==
    IF ~StartsWithFence(text) THEN text
    ELSE LET rest == Tail(text) IN
         LStrip(IF rest # <<>> /\ Head(rest) = "json" THEN Tail(rest) ELSE rest)

\* re.sub(r"\s*```$", "", raw_content)
StripClosingFence(text) ==
    IF text # <<>> /\ text[Len(text)] = "fence"
    THEN RStrip(SubSeq(text, 1, Len(text) - 1))
    ELSE text

\* The unwrapping with the closing fence left in place.
Unwrap_opening_only(text) ==
    IF StartsWithFence(text) THEN StripOpeningFence(text) ELSE text

\* if raw_content.startswith("```"): strip both fences
Unwrap(text) ==
    IF StartsWithFence(text)
    THEN StripClosingFence(StripOpeningFence(text))
    ELSE text

\* json.loads: one value, whitespace around it allowed
json_loads(text, value) ==
    IF Strip(text) = <<"value">> THEN Ret(value) ELSE Raise("JSONDecodeError")

\* response.choices[0].message.content.strip(), unwrapped and decoded
DecodeResponse(response) ==
    CASE response.t = "error" -> Raise("APIError")
      [] response.t = "nocontent" -> Raise("AttributeError")
      [] OTHER -> json_loads(Unwrap(Strip(response.text)), response.value)

\* result.get(key, default): an AttributeError on anything but a dict
DictGet(obj, key, default) ==
    IF key \in DOMAIN obj.v THEN obj.v[key] ELSE default

\* ----------------------------------------------------------- analyze_news

NewsAnalysis(humor, criticism, core, controversial, images, summary) ==
    [ humor_points |-> humor, criticism_points |-> criticism,
      core_viewpoints |-> core, controversial_points |-> controversial,
      key_images |-> images, summary |-> summary ]

\* "analysis failed" stands for the source's sentinel summary.
AnalysisFailed == PyStr("analysis failed")
DegradedAnalysis ==
    NewsAnalysis(PyList(<<>>), PyList(<<>>), PyList(<<>>), PyList(<<>>),
                 PyList(<<>>), AnalysisFailed)

\* the body of the try block
analyze_body(response) ==
    LET decoded == DecodeResponse(response) IN
    IF IsRaise(decoded) THEN decoded
    ELSE IF decoded.v.t # "dict" THEN Raise("AttributeError")
    ELSE Ret(NewsAnalysis(
             DictGet(decoded.v, "humor_points", PyList(<<>>)),
             DictGet(decoded.v, "criticism_points", PyList(<<>>)),
             DictGet(decoded.v, "core_viewpoints", PyList(<<>>)),
             DictGet(decoded.v, "controversial_points", PyList(<<>>)),
             PyList(<<>>),
             DictGet(decoded.v, "summary", PyStr(""))))

\* The handler catching decode errors only.
analyze_news_decode_only(response) ==
    LET body == analyze_body(response) IN
    IF IsRaise(body) /\ body.v = "JSONDecodeError" THEN Ret(DegradedAnalysis)
    ELSE body

\* try: ... except Exception: return NewsAnalysis([], [], [], [], [], sentinel)
analyze_news(response) ==
    LET body == analyze_body(response) IN
    IF IsRaise(body) THEN Ret(DegradedAnalysis) ELSE body

\* The JSON values a response can carry: a full analysis, an empty object,
\* an object whose core_viewpoints is null, and an array.
FullAnalysisJson ==
    PyDict([ humor_points |-> PyList(<<PyStr("pun")>>),
             criticism_points |-> PyList(<<PyStr("cost")>>),
             core_viewpoints |-> PyList(<<PyStr("tax")>>),
             controversial_points |-> PyList(<<PyStr("vote")>>),
             summary |-> PyStr("a tax vote") ])
NullViewpointsJson ==
    PyDict([ core_viewpoints |-> PyNone, summary |-> PyStr("a tax vote") ])
EmptyObjectJson == PyDict(<<>>)
ArrayJson == PyList(<<PyStr("tax")>>)
AnalysisJsonValues ==
    {FullAnalysisJson, NullViewpointsJson, EmptyObjectJson, ArrayJson}

MaxResponseLen == 6

ResponseTexts == UNION { [1..k -> ResponsePieces] : k \in 0..MaxResponseLen }

AnalysisResponses ==
    {ApiError, NoContent}
    \cup { Message(text, value) : text \in ResponseTexts, value \in AnalysisJsonValues }

AnalyzeIdle == ana_in = ApiError /\ ana_out = Pending

AnalyzeInit == ana_in \in AnalysisResponses /\ ana_out = Pending

Analyze ==
    /\ ana_out = Pending
    /\ ana_out' = analyze_news(ana_in)
    /\ UNCHANGED ana_in

\* ------------------------------------------------------ generate_comments

\* self.styles
Styles == <<"provocative", "witty", "insightful", "question">>
ExemplarRefs == 2
\* result.get('confidence', 0.5), in hundredths
DefaultConfidence == 50

\* '; '.join(points): a str or a dict is iterated, anything else but a list
\* of str raises
JoinPoints(points) ==
    CASE points.t = "list" -> Join(points.v)
      [] points.t \in {"str", "dict"} -> Ret(<<points>>)
      [] OTHER -> Raise("TypeError")

\* a + b
Concat(a, b) ==
    IF a.t = "list" /\ b.t = "list" THEN Ret(PyList(a.v \o b.v))
    ELSE IF a.t = "str" /\ b.t = "str" THEN Ret(PyStr(<<a.v, b.v>>))
    ELSE Raise("TypeError")

RECURSIVE JoinLines(_)
\* '\n'.join(texts)
JoinLines(texts) ==
    IF texts = <<>> THEN <<>>
    ELSE IF Len(texts) = 1 THEN Head(texts)
    ELSE Head(texts) \o <<Word("\n", 1)>> \o JoinLines(Tail(texts))

\* ref_text: the texts of the first two references of the style
Exemplar(reddit_refs, style) ==
    LET style_refs == SelectSeq(reddit_refs, LAMBDA ref : ref.style = style)
        first == Slice(style_refs, ExemplarRefs)
    IN  JoinLines([i \in 1..Len(first) |-> first[i].comment])

\* the prompt f-string, built outside the try block
BuildPrompt(analysis, reddit_refs, style) ==
    LET core == JoinPoints(analysis.core_viewpoints)
        both == Concat(analysis.controversial_points, analysis.criticism_points)
        disputed == IF IsRaise(both) THEN both ELSE JoinPoints(both.v)
        humor == JoinPoints(analysis.humor_points)
    IN  IF IsRaise(core) THEN core
        ELSE IF IsRaise(disputed) THEN disputed
        ELSE IF IsRaise(humor) THEN humor
        ELSE Ret([ style |-> style, core |-> core.v, disputed |-> disputed.v,
                   humor |-> humor.v,
                   ref_text |-> Exemplar(reddit_refs, style) ])

GeneratedComment(content, style, image_prompt, confidence) ==
    [ content |-> content, style |-> style, image_prompt |-> image_prompt,
      confidence |-> confidence ]

\* _generate_single_comment: a comment, None, or the prompt's exception
generate_single_comment(analysis, reddit_refs, style, response) ==
    LET prompt == BuildPrompt(analysis, reddit_refs, style)
        decoded == DecodeResponse(response)
    IN  IF IsRaise(prompt) THEN prompt
        ELSE IF IsRaise(decoded) THEN Ret(PyNone)
        ELSE IF decoded.v.t # "dict" THEN Ret(PyNone)
        ELSE Ret(GeneratedComment(
                 DictGet(decoded.v, "comment", PyStr("")),
                 style,
                 DictGet(decoded.v, "image_prompt", PyStr("")),
                 DictGet(decoded.v, "confidence", PyNum(DefaultConfidence))))

RECURSIVE CollectComments(_, _, _, _)
\* the loop over self.styles, from the k-th style on
CollectComments(analysis, reddit_refs, responses, k) ==
    IF k > Len(Styles) THEN Ret(<<>>)
    ELSE LET one == generate_single_comment(
                        analysis, reddit_refs, Styles[k], responses[Styles[k]])
             rest == CollectComments(analysis, reddit_refs, responses, k + 1)
         IN  IF IsRaise(one) THEN one
             ELSE IF IsRaise(rest) THEN rest
             ELSE IF one.v = PyNone THEN rest
             ELSE Ret(<<one.v>> \o rest.v)

\* The order Python gives two confidences: numbers by value, strings
\* lexicographically ("high" before "low"); None, and a number against a
\* string, do not compare.
ConfidenceKey(c) ==
    CASE c.t = "num" -> c.v
      [] c.t = "str" /\ c.v = "high" -> 1
      [] c.t = "str" /\ c.v = "low" -> 2
      [] OTHER -> 0
Comparable(a, b) == a.t = b.t /\ a.t \in {"num", "str"}

\* The comments returned in the order generated.
SortByConfidence_unsorted(found) == Ret(found)

\* sorted(comments, key=lambda x: x.confidence, reverse=True): a TypeError
\* when two of the confidences do not compare
SortByConfidence(found) ==
    IF \E i, j \in 1..Len(found) :
           i # j /\ ~Comparable(found[i].confidence, found[j].confidence)
    THEN Raise("TypeError")
    ELSE Ret(SortedDesc([i \in 1..Len(found) |-> ConfidenceKey(found[i].confidence)],
                        found))

\* A stand-in comment returned when no style produced one.
generate_comments_placeholder(analysis, reddit_refs, responses) ==
    LET found == CollectComments(analysis, reddit_refs, responses, 1) IN
    IF IsRaise(found) THEN found
    ELSE IF found.v = <<>>
         THEN Ret(<<GeneratedComment(PyStr(""), "neutral", PyStr(""),
                                     PyNum(DefaultConfidence))>>)
         ELSE SortByConfidence(found.v)

generate_comments(analysis, reddit_refs, responses) ==
    LET found == CollectComments(analysis, reddit_refs, responses, 1) IN
    IF IsRaise(found) THEN found ELSE SortByConfidence(found.v)

\* A request sent to an external service: the service, what is asked of it,
\* the comment it is sent for (0 when for none) and, for a generation
\* request, the prompt it carries.
Request(kind, key, item, body) ==
    [kind |-> kind, key |-> key, item |-> item, body |-> body]

RECURSIVE GenerationRequestsFrom(_, _, _, _)
\* the requests of the loop over self.styles, from the k-th style on: one
\* per style, none once a prompt could not be built
GenerationRequestsFrom(analysis, reddit_refs, responses, k) ==
    IF k > Len(Styles) THEN <<>>
    ELSE LET prompt == BuildPrompt(analysis, reddit_refs, Styles[k]) IN
         IF IsRaise(prompt) THEN <<>>
         ELSE <<Request("generation", Styles[k], 0, <<prompt.v>>)>>
              \o GenerationRequestsFrom(analysis, reddit_refs, responses, k + 1)

\* A retry: the request of a style sent again after the first call failed.
GenerationRequests_retry(analysis, reddit_refs, responses) ==
    LET sent == GenerationRequestsFrom(analysis, reddit_refs, responses, 1) IN
    sent \o SelectSeq(sent, LAMBDA r : responses[r.key].t = "error")

\* the openai.chat.completions.create calls of one generate_comments call
GenerationRequests(analysis, reddit_refs, responses) ==
    GenerationRequestsFrom(analysis, reddit_refs, responses, 1)

StyleSet == {Styles[k] : k \in 1..Len(Styles)}

\* A code-fenced response text, and two comment objects: one as asked for,
\* one without the image prompt and the confidence.
FencedText == <<"fence", "json", "space", "value", "space", "fence">>
QuipJson ==
    PyDict([ comment |-> PyStr("quip"), image_prompt |-> PyStr("a cartoon"),
             confidence |-> PyNum(80) ])
TerseJson == PyDict([ comment |-> PyStr("why?") ])

\* The responses a style's request can get: a failed call, a text that is no
\* JSON, a comment object (bare; fenced and without its confidence; with a
\* confidence of 1.5, of "high", of null), and a JSON array.
BoldJson ==
    PyDict([ comment |-> PyStr("bold"), image_prompt |-> PyStr("a flag"),
             confidence |-> PyNum(150) ])
VagueJson ==
    PyDict([ comment |-> PyStr("maybe"), image_prompt |-> PyStr("a fog"),
             confidence |-> PyStr("high") ])
NullConfidenceJson ==
    PyDict([ comment |-> PyStr("hm"), image_prompt |-> PyStr("a blank"),
             confidence |-> PyNone ])
GenerateResponses ==
    { ApiError, Message(<<"json">>, QuipJson), Message(<<"value">>, QuipJson),
      Message(FencedText, TerseJson), Message(<<"value">>, BoldJson),
      Message(<<"value">>, VagueJson), Message(<<"value">>, NullConfidenceJson),
      Message(<<"value">>, ArrayJson) }

\* ---------------------------------------------------------- ImageGenerator

HostedProviders == {"gpt5", "dalle", "flux", "firefly"}
DefaultProvider == "dalle"

\* self.provider = config.get('image_provider', 'dalle')
Provider(cfg) ==
    IF "image_provider" \in DOMAIN cfg THEN cfg.image_provider ELSE DefaultProvider

\* _generate_text_image: None when the card cannot be rendered
generate_text_image(comment, card) ==
    IF comment.content.t # "str" THEN PyNone
    ELSE IF card = "fail" THEN PyNone
    ELSE PyStr("data:image/png;base64")

\* The else branch sent to the OpenAI image service instead of raising.
BackendImage_else_dalle(provider, backend) ==
    IF backend = "url" THEN Ret(PyStr("https://image")) ELSE Raise("BackendError")

\* the try block: the configured backend, a ValueError for any other name
BackendImage(provider, backend) ==
    IF provider \in HostedProviders
    THEN IF backend = "url" THEN Ret(PyStr("https://image")) ELSE Raise("BackendError")
    ELSE Raise("ValueError")

\* The hosted service each branch of the dispatch calls; 'gpt5' is sent to
\* _generate_with_dalle like 'dalle'.
Backend(provider) ==
    CASE provider \in {"gpt5", "dalle"} -> "openai.images"
      [] provider = "flux" -> "api.flux.ai"
      [] provider = "firefly" -> "firefly-api.adobe.io"
      [] OTHER -> "none"

\* A fail-over: a second hosted service tried once the first has failed.
ImageRequests_failover(provider, backend) ==
    IF provider \notin HostedProviders THEN <<>>
    ELSE IF backend = "url" THEN <<Backend(provider)>>
    ELSE <<Backend(provider),
           IF Backend(provider) = "openai.images" THEN "api.flux.ai"
           ELSE "openai.images">>

\* the hosted services one generate_comment_image call sends a request to
ImageRequests(provider, backend) ==
    IF provider \in HostedProviders THEN <<Backend(provider)>> ELSE <<>>

\* The dispatch without its handler: a backend failure reaches the caller.
generate_comment_image_unguarded(comment, news_title, provider, backend, card) ==
    BackendImage(provider, backend)

\* try: the dispatch; except Exception: return self._generate_text_image(comment)
generate_comment_image(comment, news_title, provider, backend, card) ==
    LET primary == BackendImage(provider, backend) IN
    IF IsRaise(primary) THEN Ret(generate_text_image(comment, card)) ELSE primary

\* The calls made: a comment as generated, one whose content is a JSON
\* number and one whose content is null; the providers a configuration can
\* name; what the hosted service does; whether the card can be rendered.
ImageComments ==
    { GeneratedComment(c, "witty", PyStr("a cartoon"), PyNum(80)) :
        c \in {PyStr("quip"), PyNum(5), PyNone} }
ImageProviders == HostedProviders \cup {"local", "midjourney"}
BackendOutcomes == {"url", "error", "timeout"}
CardOutcomes == {"ok", "fail"}

ImageIdle == img_in = Pending /\ img_out = Pending

\* The value of 'image_provider' when the key is there and nothing was
\* chosen: config_manager builds the dict with the key and the value None.
NullProvider == "None"
\* The dicts ImageGenerator is built from: without the key, and with each
\* value of it.
ImageConfigs ==
    {[openai_api_key |-> "key-a"]}
    \cup {[openai_api_key |-> "key-a", image_provider |-> p] :
             p \in ImageProviders \cup {NullProvider}}

\* ImageGenerator(config) built, generate_comment_image about to be called.
ImageInit ==
    /\ img_in \in { [ comment |-> c, news_title |-> <<"Tax", "vote">>,
                       config |-> cfg, provider |-> Provider(cfg),
                       backend |-> b, card |-> k ] :
                     c \in ImageComments, cfg \in ImageConfigs,
                     b \in BackendOutcomes, k \in CardOutcomes }
    /\ img_out = Pending

\* One call of generate_comment_image.
GenerateImage ==
    /\ img_out = Pending
    /\ img_out' =
           [ outcome |-> generate_comment_image(
                             img_in.comment, img_in.news_title, img_in.provider,
                             img_in.backend, img_in.card),
             requests |-> ImageRequests(img_in.provider, img_in.backend) ]
    /\ UNCHANGED img_in

\* --------------------------------------------------------- extract_content

\* What the HTTP request meets: a page (its extracted title as the words of
\* title.split(), its body text), or a failure of requests.get or of
\* raise_for_status.
Page(title, content) == [t |-> "page", title |-> title, content |-> content, cause |-> ""]
FetchError(cause) == [t |-> "error", title |-> <<>>, content |-> <<>>, cause |-> cause]

\* The failure swallowed: an empty document returned instead of raising.
extract_content_swallow(url, met) ==
    IF met.t = "error"
    THEN Ret([title |-> <<"no-title">>, content |-> <<>>, images |-> <<>>, url |-> url])
    ELSE Ret([title |-> met.title, content |-> met.content, images |-> <<>>, url |-> url])

\* "extraction failed" stands for the message prefix of the source; the
\* cause is the str(e) that follows it.
extract_content(url, met) ==
    IF met.t = "error"
    THEN Raise(<<"extraction failed", met.cause>>)
    ELSE Ret([title |-> met.title, content |-> met.content, images |-> <<>>, url |-> url])

\* --------------------------------------------------------- process_news_url

Stages == <<"extract", "analyze", "mine", "generate", "illustrate">>

\* A retry edge: the analysis run again after the generation.
NextStage_again(stage) ==
    CASE stage = "extract" -> "analyze"
      [] stage = "analyze" -> "mine"
      [] stage = "mine" -> "generate"
      [] stage = "generate" -> IF Len(calls) < 5 THEN "analyze" ELSE "illustrate"
      [] OTHER -> "done"

\* the statement order of the try block
NextStage(stage) ==
    CASE stage = "extract" -> "analyze"
      [] stage = "analyze" -> "mine"
      [] stage = "mine" -> "generate"
      [] stage = "generate" -> "illustrate"
      [] OTHER -> "done"

\* except Exception as e: return {'error': str(e), 'success': False}
FailedResult(e) == [success |-> FALSE, error |-> e]

\* the dict returned at the end of the try block
SuccessResult(news, analysis, refs, cmts) ==
    [ news |-> news, analysis |-> analysis, reddit_references |-> refs,
      generated_comments |-> cmts, processing_time |-> "now", success |-> TRUE ]

\* analysis.core_viewpoints + [news_data['title'].split()[0]]
Keywords(analysis, news) ==
    IF news.title = <<>> THEN Raise("IndexError")
    ELSE Concat(analysis.core_viewpoints, PyList(<<PyStr(Head(news.title))>>))

\* The reference formatted before it is printed: nothing raises.
PrintImageUrl_formatted(image_url) == Ret(PyNone)

\* print("..." + image_url)
PrintImageUrl(image_url) ==
    IF image_url.t = "str" THEN Ret(PyNone) ELSE Raise("TypeError")

\* The first comment that has no image_url yet; past the end when all have.
NextToIllustrate ==
    IF \E i \in 1..Len(generated_comments) :
           "image_url" \notin DOMAIN generated_comments[i]
    THEN CHOOSE i \in 1..Len(generated_comments) :
           /\ "image_url" \notin DOMAIN generated_comments[i]
           /\ \A j \in 1..(i - 1) : "image_url" \in DOMAIN generated_comments[j]
    ELSE Len(generated_comments) + 1

Url == "https://news/tax-vote"
FetchOutcomes ==
    { Page(<<"Tax", "vote">>, <<Filler(300)>>),
      FetchError("timeout"), FetchError("connection"), FetchError("404") }

Configs ==
    { [openai_api_key |-> "key-a", image_provider |-> "flux"],
      [openai_api_key |-> "key-a", image_provider |-> "local"] }

\* The responses the analysis request gets in a run: a failed call, a text
\* that is no JSON, a bare object, a fenced object with every field missing.
PipelineAnalysisResponses ==
    { ApiError, Message(<<"json">>, ArrayJson),
      Message(<<"value">>, FullAnalysisJson),
      Message(FencedText, EmptyObjectJson) }

\* What the search of a run meets: an empty listing or one busy submission,
\* and a service that fails or not.
PipelineListings ==
    { [subs |-> <<>>, posted |-> 0],
      [subs |-> <<[comments |-> CHOOSE t \in Threads : t # <<>>,
                   subreddit |-> Subreddits[1]]>>, posted |-> 0] }
PipelineOutages == {"none", "search"}

\* The responses a style's request gets in a run: a failed call, a bare
\* comment object, a fenced object without the confidence field.
PipelineCommentResponses ==
    { ApiError, Message(<<"value">>, QuipJson), Message(FencedText, TerseJson) }


RunIdle ==
    /\ pc = "idle"
    /\ config = [openai_api_key |-> "key-a"]
    /\ fetch = Pending
    /\ news_data = Pending
    /\ generated_comments = <<>>
    /\ result = Pending
    /\ calls = <<>>

PipelineIdle ==
    /\ gen_in = Pending
    /\ gen_out = Pending
    /\ requests = <<>>
    /\ RunIdle

PipelineInit ==
    /\ gen_in = Pending
    /\ gen_out = Pending
    /\ requests = <<>>
    /\ pc = "extract"
    /\ config \in Configs
    /\ fetch = Pending
    /\ news_data = Pending
    /\ generated_comments = <<>>
    /\ result = Pending
    /\ calls = <<>>

\* 1. news_data = self.extractor.extract_content(url)
Extract ==
    /\ pc = "extract"
    /\ \E met \in FetchOutcomes :
         LET out == extract_content(Url, met) IN
         /\ fetch' = met
         /\ calls' = Append(calls, "extract")
         /\ requests' = Append(requests, Request("fetch", Url, 0, <<>>))
         /\ IF IsRaise(out)
            THEN /\ result' = FailedResult(out.v)
                 /\ pc' = "done"
                 /\ UNCHANGED news_data
            ELSE /\ news_data' = out.v
                 /\ pc' = NextStage("extract")
                 /\ UNCHANGED result
    /\ UNCHANGED <<ana_in, ana_out, reddit, mine_in, mine_out, gen_in, gen_out,
                   generated_comments, config>>

\* 2. analysis = self.analyzer.analyze_news(title, content)
AnalyzeStage ==
    /\ pc = "analyze"
    /\ \E response \in PipelineAnalysisResponses :
         LET out == analyze_news(response) IN
         /\ ana_in' = response
         /\ ana_out' = out
         /\ calls' = Append(calls, "analyze")
         /\ requests' = Append(requests, Request("analysis", "gpt-5", 0, <<>>))
         /\ IF IsRaise(out)
            THEN result' = FailedResult(out.v) /\ pc' = "done"
            ELSE pc' = NextStage("analyze") /\ UNCHANGED result
    /\ UNCHANGED <<reddit, mine_in, mine_out, gen_in, gen_out,
                   generated_comments, config, fetch, news_data>>

\* 3. keywords = ...; reddit_refs = find_related_discussions(keywords)
MineStage ==
    /\ pc = "mine"
    /\ LET keywords == Keywords(ana_out.v, news_data) IN
       IF IsRaise(keywords)
       THEN /\ result' = FailedResult(keywords.v)
            /\ pc' = "done"
            /\ UNCHANGED <<reddit, mine_in, mine_out, calls, requests>>
       ELSE \E listing \in PipelineListings, outage \in PipelineOutages :
              LET out == find_related_discussions(
                             keywords.v.v, DefaultLimit, listing, outage) IN
              /\ reddit' = listing
              /\ mine_in' = [keywords |-> keywords.v.v, limit |-> DefaultLimit,
                             outage |-> outage]
              /\ mine_out' = out
              /\ calls' = Append(calls, "mine")
              /\ requests' = requests \o MinerRequests(
                                  keywords.v.v, DefaultLimit, listing, outage)
              /\ IF IsRaise(out)
                 THEN result' = FailedResult(out.v) /\ pc' = "done"
                 ELSE pc' = NextStage("mine") /\ UNCHANGED result
    /\ UNCHANGED <<ana_in, ana_out, gen_in, gen_out, generated_comments,
                   config, fetch, news_data>>

\* 4. generated_comments = generate_comments(analysis, reddit_refs)
GenerateStage ==
    /\ pc = "generate"
    /\ \E responses \in [StyleSet -> PipelineCommentResponses] :
         LET out == generate_comments(ana_out.v, mine_out.v, responses) IN
         /\ gen_in' = responses
         /\ gen_out' = out
         /\ calls' = Append(calls, "generate")
         /\ requests' = requests \o GenerationRequests(ana_out.v, mine_out.v, responses)
         /\ IF IsRaise(out)
            THEN /\ result' = FailedResult(out.v)
                 /\ pc' = "done"
                 /\ UNCHANGED generated_comments
            ELSE /\ generated_comments' = out.v
                 /\ pc' = NextStage("generate")
                 /\ UNCHANGED result
    /\ UNCHANGED <<ana_in, ana_out, reddit, mine_in, mine_out, config, fetch,
                   news_data>>

\* 5. one turn of the loop: generate_comment_image, cmt.image_url = ..., print
IllustrateStage ==
    /\ pc = "illustrate"
    /\ NextToIllustrate <= Len(generated_comments)
    /\ \E backend \in {"url", "error"}, card \in {"ok", "fail"} :
         LET i == NextToIllustrate
             image_url == generate_comment_image(
                              generated_comments[i], news_data.title,
                              Provider(config), backend, card).v
             printed == PrintImageUrl(image_url)
         IN  /\ generated_comments' =
                    [generated_comments EXCEPT ![i] = [image_url |-> image_url] @@ @]
             /\ calls' = Append(calls, "illustrate")
             /\ requests' = requests \o
                    [k \in 1..Len(ImageRequests(Provider(config), backend)) |->
                       Request("image", ImageRequests(Provider(config), backend)[k],
                               i, <<>>)]
             /\ IF IsRaise(printed)
                THEN result' = FailedResult(printed.v) /\ pc' = "done"
                ELSE UNCHANGED <<result, pc>>
    /\ UNCHANGED <<ana_in, ana_out, reddit, mine_in, mine_out, gen_in, gen_out,
                   config, fetch, news_data>>

\* 6. the result dict is assembled and returned
Finish ==
    /\ pc = "illustrate"
    /\ NextToIllustrate > Len(generated_comments)
    /\ result' = SuccessResult(news_data, ana_out.v, mine_out.v, generated_comments)
    /\ pc' = NextStage("illustrate")
    /\ UNCHANGED <<ana_in, ana_out, reddit, mine_in, mine_out, gen_in, gen_out,
                   generated_comments, config, fetch, news_data, calls, requests>>

\* ------------------------------------------- two bots and openai.api_key

\* Each bot: the configuration it is built from, how far its construction
\* and its run have got, and the credentials its text-generation and image
\* requests were sent with (the client reads openai.api_key at each request).
BotIds == {1, 2}
BotConfigs ==
    { [openai_api_key |-> k, image_provider |-> p] :
        k \in {"key-a", "key-b"}, p \in {"dalle", "flux"} }

NewBot(cfg) == [config |-> cfg, at |-> "new", sent |-> {}]

BotsIdle == openai_api_key = PyNone /\ bots = <<>>

BotsInit ==
    /\ openai_api_key = PyNone
    /\ bots \in [BotIds -> {NewBot(cfg) : cfg \in BotConfigs}]

\* A request made through the openai module: it carries openai.api_key.
SendRequest(b, next) ==
    bots' = [bots EXCEPT ![b].at = next, ![b].sent = @ \cup {openai_api_key}]

\* NewsAnalyzer.__init__: openai.api_key = api_key
BuildAnalyzer(b) ==
    /\ bots[b].at = "new"
    /\ openai_api_key' = PyStr(bots[b].config.openai_api_key)
    /\ bots' = [bots EXCEPT ![b].at = "analyzer"]

\* CommentGenerator.__init__: openai.api_key = api_key
BuildGenerator(b) ==
    /\ bots[b].at = "analyzer"
    /\ openai_api_key' = PyStr(bots[b].config.openai_api_key)
    /\ bots' = [bots EXCEPT ![b].at = "generator"]

\* ImageGenerator.__init__: openai.api_key set for gpt5 and dalle only
BuildImageGenerator(b) ==
    /\ bots[b].at = "generator"
    /\ openai_api_key' =
           IF Provider(bots[b].config) \in {"gpt5", "dalle"}
           THEN PyStr(bots[b].config.openai_api_key)
           ELSE openai_api_key
    /\ bots' = [bots EXCEPT ![b].at = "extract"]

\* extract_content: no credential; a fetch failure ends the run
BotExtract(b) ==
    /\ bots[b].at = "extract"
    /\ \E next \in {"analyze", "done"} : bots' = [bots EXCEPT ![b].at = next]
    /\ UNCHANGED openai_api_key

\* analyze_news: openai.chat.completions.create
BotAnalyze(b) ==
    /\ bots[b].at = "analyze"
    /\ SendRequest(b, "mine")
    /\ UNCHANGED openai_api_key

\* find_related_discussions: the bot's own praw client
BotMine(b) ==
    /\ bots[b].at = "mine"
    /\ bots' = [bots EXCEPT ![b].at = "generate"]
    /\ UNCHANGED openai_api_key

\* generate_comments: openai.chat.completions.create for the styles
BotGenerate(b) ==
    /\ bots[b].at = "generate"
    /\ SendRequest(b, "illustrate")
    /\ UNCHANGED openai_api_key

\* generate_comment_image: openai.images.generate for gpt5 and dalle, the
\* bot's own key for the others
BotIllustrate(b) ==
    /\ bots[b].at = "illustrate"
    /\ IF Provider(bots[b].config) \in {"gpt5", "dalle"}
       THEN SendRequest(b, "done")
       ELSE bots' = [bots EXCEPT ![b].at = "done"]
    /\ UNCHANGED openai_api_key

\* ---------------------------------------------------- _extract_article_text

\* The text of a page is made of runs of characters the cleaning keeps
\* (Filler), runs of whitespace and runs of characters the cleaning removes.
Space(n) == [w |-> " ", n |-> n]
Junk(n) == [w |-> "@", n |-> n]

\* The parsed page: its elements in document order.  An element has a tag
\* ("content" stands for a div whose class contains "content"), its text,
\* and `para`: whether the text sits in a <p> element (always so for tag p).
Element(tag, para, text) == [tag |-> tag, para |-> para, text |-> text]

RemovedTags == {"footer"}
ContentSelectors == <<"content", "main">>
ContentMinLen == 200
RawTextLen == 2000

RECURSIVE JoinSpace(_)
\* ' '.join(texts)
JoinSpace(texts) ==
    IF texts = <<>> THEN <<>>
    ELSE IF Len(texts) = 1 THEN Head(texts)
    ELSE Head(texts) \o <<Space(1)>> \o JoinSpace(Tail(texts))

RECURSIVE JoinNone(_)
\* soup.get_text(): the texts one after the other
JoinNone(texts) ==
    IF texts = <<>> THEN <<>> ELSE Head(texts) \o JoinNone(Tail(texts))

RECURSIVE CollapseSpace(_)
\* re.sub(r'\s+', ' ', text)
CollapseSpace(text) ==
    IF text = <<>> THEN <<>>
    ELSE IF Head(text).w # " " THEN <<Head(text)>> \o CollapseSpace(Tail(text))
    ELSE IF Len(text) >= 2 /\ text[2].w = " " THEN CollapseSpace(Tail(text))
    ELSE <<Space(1)>> \o CollapseSpace(Tail(text))

\* re.sub(r'[^\w\s...]', '', text)
RemoveJunk(text) == SelectSeq(text, LAMBDA a : a.w # "@" /\ a.n > 0)

RECURSIVE StripLeft(_)
StripLeft(text) ==
    IF text # <<>> /\ Head(text).w = " " THEN StripLeft(Tail(text)) ELSE text

RECURSIVE StripRight(_)
StripRight(text) ==
    IF text # <<>> /\ text[Len(text)].w = " "
    THEN StripRight(SubSeq(text, 1, Len(text) - 1))
    ELSE text

\* _clean_text
clean_text(text) == StripRight(StripLeft(RemoveJunk(CollapseSpace(text))))

ElementTexts(elements) == [i \in 1..Len(elements) |-> elements[i].text]

RECURSIVE TrySelectors(_, _)
\* the loop over content_selectors: the first selector whose elements hold
\* more than 200 characters decides, its text cleaned
TrySelectors(kept, selectors) ==
    IF selectors = <<>> THEN Raise("no selector")
    ELSE LET elements == SelectSeq(kept, LAMBDA e : e.tag = Head(selectors))
             text == JoinSpace(ElementTexts(elements))
         IN  IF elements # <<>> /\ TextLen(text) > ContentMinLen
             THEN Ret(clean_text(text))
             ELSE TrySelectors(kept, Tail(selectors))

\* _extract_article_text
extract_article_text(page) ==
    LET kept == SelectSeq(page, LAMBDA e : e.tag \notin RemovedTags)
        selected == TrySelectors(kept, ContentSelectors)
        paragraphs == SelectSeq(kept, LAMBDA e : e.para)
    IN  IF ~IsRaise(selected) THEN selected.v
        ELSE IF paragraphs # <<>>
             THEN clean_text(JoinSpace(ElementTexts(paragraphs)))
             ELSE TextSlice(JoinNone(ElementTexts(kept)), RawTextLen)

\* The texts an element can hold and the elements a page is made of.
ElementTextPool ==
    { <<>>, <<Space(201)>>, <<Junk(3)>>, <<Filler(40)>>,
      <<Space(1), Filler(201), Junk(1)>> }
Elements ==
    { Element("p", TRUE, t) : t \in ElementTextPool }
    \cup { Element("content", para, t) : para \in BOOLEAN, t \in ElementTextPool }
    \cup { Element("main", FALSE, t) : t \in ElementTextPool }
    \cup { Element("footer", TRUE, t) : t \in ElementTextPool }
    \cup { Element("div", FALSE, t) : t \in ElementTextPool }

MaxElements == 2

Soups == UNION { [1..k -> Elements] : k \in 0..MaxElements }

SoupIdle == soup = <<>> /\ article_text = Pending

SoupInit == soup \in Soups /\ article_text = Pending

\* One call of _extract_article_text.
ExtractArticleText ==
    /\ article_text = Pending
    /\ article_text' = Ret(extract_article_text(soup))
    /\ UNCHANGED soup

\* ----------------------------------------------------------- export_result

\* getattr(comment, 'image_url', None)
ImageUrlOf(comment) ==
    IF "image_url" \in DOMAIN comment THEN comment.image_url ELSE PyNone

\* export_data: the serialisable copy built from the result
ExportData(res) ==
    IF "success" \in DOMAIN res /\ res.success
    THEN [ news |-> res.news,
           analysis |-> [ humor_points |-> res.analysis.humor_points,
                          criticism_points |-> res.analysis.criticism_points,
                          core_viewpoints |-> res.analysis.core_viewpoints,
                          controversial_points |-> res.analysis.controversial_points,
                          summary |-> res.analysis.summary ],
           reddit_references |->
               [i \in 1..Len(res.reddit_references) |->
                  [ comment |-> res.reddit_references[i].comment,
                    score |-> res.reddit_references[i].score,
                    style |-> res.reddit_references[i].style,
                    subreddit |-> res.reddit_references[i].subreddit ]],
           generated_comments |->
               [i \in 1..Len(res.generated_comments) |->
                  [ content |-> res.generated_comments[i].content,
                    style |-> res.generated_comments[i].style,
                    image_prompt |-> res.generated_comments[i].image_prompt,
                    confidence |-> res.generated_comments[i].confidence,
                    image_url |-> ImageUrlOf(res.generated_comments[i]) ]],
           processing_time |-> res.processing_time ]
    ELSE [ error |-> res.error ]

\* if not filename: a name made from the time of the call
FileName(filename) ==
    IF filename = PyNone \/ filename = PyStr("") THEN PyStr("news_comments_now.json")
    ELSE filename

\* The write guarded, and its failure noted in the result instead.
export_result_swallow(res, filename, disk) ==
    [ result |-> IF disk = "ok" THEN res
                 ELSE [export_error |-> "OSError"] @@ res,
      file |-> IF disk = "ok"
               THEN [name |-> FileName(filename), data |-> <<ExportData(res)>>]
               ELSE [name |-> FileName(filename), data |-> <<>>],
      outcome |-> Ret(PyNone) ]

\* export_result: the result object after the call, the file written, and
\* the call's outcome; open() raising reaches the caller
export_result(res, filename, disk) ==
    [ result |-> res,
      file |-> IF disk = "ok"
               THEN [name |-> FileName(filename), data |-> <<ExportData(res)>>]
               ELSE [name |-> FileName(filename), data |-> <<>>],
      outcome |-> IF disk = "ok" THEN Ret(PyNone) ELSE Raise("OSError") ]

\* The results a run returns: failed ones, and successful ones over the
\* analyses, references and comments the stages produce, the comments with
\* or without their image_url.
WithImageUrl(cmts) ==
    [i \in 1..Len(cmts) |-> [image_url |-> PyStr("https://image")] @@ cmts[i]]
ExportDocument ==
    [title |-> <<"Tax", "vote">>, content |-> <<Filler(300)>>, images |-> <<>>,
     url |-> "https://news/tax-vote"]
ExportComments ==
    LET made == { generate_comments(DegradedAnalysis, <<>>, r) :
                    r \in [StyleSet -> {ApiError, Message(<<"value">>, QuipJson),
                                        Message(FencedText, TerseJson)}] }
    IN  UNION { {o.v, WithImageUrl(o.v)} : o \in made }
ExportResults ==
    { FailedResult(<<"extraction failed", "timeout">>),
      FailedResult(<<"extraction failed", "404">>) }
    \cup { SuccessResult(ExportDocument, analyze_news(a).v,
                         find_related_discussions(
                             <<PyStr("tax")>>, DefaultLimit, l, "none").v, c) :
             a \in {ApiError, Message(<<"value">>, FullAnalysisJson)},
             l \in { [subs |-> <<>>, posted |-> 0],
                     [subs |-> <<[comments |-> <<Awarded, Upvoted>>,
                                  subreddit |-> "news"]>>, posted |-> 0] },
             c \in ExportComments }

ExportIdle == export_in = Pending /\ export_out = Pending

ExportInit ==
    /\ export_in \in [ result : ExportResults,
                       filename : {PyNone, PyStr("out.json")},
                       disk : {"ok", "denied"} ]
    /\ export_out = Pending

\* One call of export_result.
Export ==
    /\ export_out = Pending
    /\ export_out' = export_result(export_in.result, export_in.filename,
                                   export_in.disk)
    /\ UNCHANGED export_in

\* ------------------------------------------- generate_comments on its own

\* The call's arguments: an analysis as analyze_news returns it and the
\* references find_related_discussions returns for a listing.
GenerateInit ==
    /\ reddit \in PipelineListings
    /\ mine_in = [keywords |-> <<PyStr("tax")>>, limit |-> DefaultLimit,
                  outage |-> "none"]
    /\ mine_out = find_related_discussions(
                      <<PyStr("tax")>>, DefaultLimit, reddit, "none")
    /\ ana_in \in PipelineAnalysisResponses
    /\ ana_out = analyze_news(ana_in)
    /\ gen_in = Pending
    /\ gen_out = Pending
    /\ requests = <<>>

\* One call of generate_comments.
Generate ==
    /\ gen_out = Pending
    /\ \E responses \in [StyleSet -> GenerateResponses] :
         /\ gen_in' = responses
         /\ gen_out' = generate_comments(ana_out.v, mine_out.v, responses)
         /\ requests' = GenerationRequests(ana_out.v, mine_out.v, responses)
    /\ UNCHANGED <<reddit, mine_in, mine_out, ana_in, ana_out>>

\* ------------------------------------- one response read by both decoders

\* The same response text given to analyze_news and to
\* _generate_single_comment: any text of the pieces around an analysis
\* object or a comment object.
UnwrapResponses ==
    { Message(text, value) : text \in ResponseTexts,
                             value \in {FullAnalysisJson, QuipJson} }

UnwrapInit ==
    \E response \in UnwrapResponses :
        /\ ana_in = response
        /\ ana_out = Pending
        /\ gen_in = [ analysis |-> DegradedAnalysis, reddit_refs |-> <<>>,
                      style |-> "witty", response |-> response ]
        /\ gen_out = Pending
        /\ requests = <<>>

\* One call of _generate_single_comment.
GenerateSingle ==
    /\ gen_out = Pending
    /\ gen_out' = generate_single_comment(
                      gen_in.analysis, gen_in.reddit_refs, gen_in.style,
                      gen_in.response)
    /\ UNCHANGED <<gen_in, requests>>

\* ---------------------------------------------------------- specifications

classifyVars == <<cls_in, cls_out>>
minerVars == <<reddit, mine_in, mine_out>>
analyzeVars == <<ana_in, ana_out>>
runVars ==
    <<pc, config, fetch, news_data, generated_comments, result, calls>>
pipelineVars == <<gen_in, gen_out, requests, runVars>>
imageVars == <<img_in, img_out>>
soupVars == <<soup, article_text>>
exportVars == <<export_in, export_out>>
botVars == <<openai_api_key, bots>>

sideVars == <<imageVars, soupVars, exportVars>>
SideIdle == ImageIdle /\ SoupIdle /\ ExportIdle

SpecClassifyInit ==
    ClassifyInit /\ MinerIdle /\ AnalyzeIdle /\ PipelineIdle /\ BotsIdle /\ SideIdle
SpecClassifyNext ==
    Classify /\ UNCHANGED <<minerVars, analyzeVars, pipelineVars, botVars, sideVars>>
SpecClassify == SpecClassifyInit /\ [][SpecClassifyNext]_vars

SpecMinerInit ==
    ClassifyIdle /\ MinerIdle /\ AnalyzeIdle /\ PipelineIdle /\ BotsIdle /\ SideIdle
minerRest == <<classifyVars, analyzeVars, pipelineVars, botVars, sideVars>>
SpecMinerNext ==
    \/ PostSubmission /\ UNCHANGED minerRest
    \/ PostComment /\ UNCHANGED minerRest
    \/ Search /\ UNCHANGED minerRest
SpecMiner == SpecMinerInit /\ [][SpecMinerNext]_vars

SpecAnalyzeInit ==
    ClassifyIdle /\ MinerIdle /\ AnalyzeInit /\ PipelineIdle /\ BotsIdle /\ SideIdle
SpecAnalyzeNext ==
    Analyze /\ UNCHANGED <<classifyVars, minerVars, pipelineVars, botVars, sideVars>>
SpecAnalyze == SpecAnalyzeInit /\ [][SpecAnalyzeNext]_vars

\* One run of process_news_url.
SpecPipelineInit ==
    ClassifyIdle /\ MinerIdle /\ AnalyzeIdle /\ PipelineInit /\ BotsIdle /\ SideIdle
pipelineRest == <<classifyVars, botVars, sideVars>>
SpecPipelineNext ==
    \/ Extract /\ UNCHANGED pipelineRest
    \/ AnalyzeStage /\ UNCHANGED pipelineRest
    \/ MineStage /\ UNCHANGED pipelineRest
    \/ GenerateStage /\ UNCHANGED pipelineRest
    \/ IllustrateStage /\ UNCHANGED pipelineRest
    \/ Finish /\ UNCHANGED pipelineRest
SpecPipeline == SpecPipelineInit /\ [][SpecPipelineNext]_vars

\* Two bots of one process, built and run in any interleaving.
SpecBotsInit ==
    ClassifyIdle /\ MinerIdle /\ AnalyzeIdle /\ PipelineIdle /\ BotsInit /\ SideIdle
otherVars == <<classifyVars, minerVars, analyzeVars, pipelineVars, sideVars>>
SpecBotsNext ==
    \/ \E b \in BotIds : BuildAnalyzer(b) /\ UNCHANGED otherVars
    \/ \E b \in BotIds : BuildGenerator(b) /\ UNCHANGED otherVars
    \/ \E b \in BotIds : BuildImageGenerator(b) /\ UNCHANGED otherVars
    \/ \E b \in BotIds : BotExtract(b) /\ UNCHANGED otherVars
    \/ \E b \in BotIds : BotAnalyze(b) /\ UNCHANGED otherVars
    \/ \E b \in BotIds : BotMine(b) /\ UNCHANGED otherVars
    \/ \E b \in BotIds : BotGenerate(b) /\ UNCHANGED otherVars
    \/ \E b \in BotIds : BotIllustrate(b) /\ UNCHANGED otherVars
SpecBots == SpecBotsInit /\ [][SpecBotsNext]_vars

\* One call of generate_comments.
SpecGenerateInit == ClassifyIdle /\ GenerateInit /\ RunIdle /\ BotsIdle /\ SideIdle
SpecGenerateNext ==
    Generate /\ UNCHANGED <<classifyVars, runVars, botVars, sideVars>>
SpecGenerate == SpecGenerateInit /\ [][SpecGenerateNext]_vars

\* One response decoded by analyze_news and by _generate_single_comment.
SpecUnwrapInit ==
    ClassifyIdle /\ MinerIdle /\ UnwrapInit /\ RunIdle /\ BotsIdle /\ SideIdle
unwrapRest == <<classifyVars, minerVars, runVars, botVars, sideVars>>
SpecUnwrapNext ==
    \/ Analyze /\ UNCHANGED <<gen_in, gen_out, requests, unwrapRest>>
    \/ GenerateSingle /\ UNCHANGED <<analyzeVars, unwrapRest>>
SpecUnwrap == SpecUnwrapInit /\ [][SpecUnwrapNext]_vars

\* One call of generate_comment_image.
SpecImageInit ==
    /\ ClassifyIdle /\ MinerIdle /\ AnalyzeIdle /\ PipelineIdle /\ BotsIdle
    /\ ImageInit /\ SoupIdle /\ ExportIdle
SpecImageNext ==
    GenerateImage /\ UNCHANGED <<classifyVars, minerVars, analyzeVars,
                                 pipelineVars, botVars, soupVars, exportVars>>
SpecImage == SpecImageInit /\ [][SpecImageNext]_vars

\* One call of _extract_article_text.
SpecSoupInit ==
    /\ ClassifyIdle /\ MinerIdle /\ AnalyzeIdle /\ PipelineIdle /\ BotsIdle
    /\ ImageIdle /\ SoupInit /\ ExportIdle
SpecSoupNext ==
    ExtractArticleText /\ UNCHANGED <<classifyVars, minerVars, analyzeVars,
                                      pipelineVars, botVars, imageVars, exportVars>>
SpecSoup == SpecSoupInit /\ [][SpecSoupNext]_vars

\* One call of export_result.
SpecExportInit ==
    /\ ClassifyIdle /\ MinerIdle /\ AnalyzeIdle /\ PipelineIdle /\ BotsIdle
    /\ ImageIdle /\ SoupIdle /\ ExportInit
SpecExportNext ==
    Export /\ UNCHANGED <<classifyVars, minerVars, analyzeVars,
                          pipelineVars, botVars, imageVars, soupVars>>
SpecExport == SpecExportInit /\ [][SpecExportNext]_vars

\* ------------------------------------------------------- claims C7 .. C10

\* The submissions a finished search was given, and the comments of them
\* the miner reads and keeps, as places <<submission, comment>>.
SearchedSubs == Min(mine_in.limit, Len(reddit.subs))
Candidates ==
    { p \in (1..SearchedSubs) \X (1..CommentsPerSubmission) :
        /\ p[2] <= Len(reddit.subs[p[1]].comments)
        /\ LET c == reddit.subs[p[1]].comments[p[2]] IN
           TextLen(c.body) > 50 /\ c.score > 10 }
CandidateRank(p) ==
    LET c == reddit.subs[p[1]].comments[p[2]] IN
    c.score + 10 * (IF c.has_awardings THEN c.all_awardings ELSE 0)
ReferenceRank(ref) == ref.score + 10 * ref.awards

\* The search ran and the service failed during it.
ServiceFailed ==
    /\ mine_out # Pending
    /\ mine_out.t = "ret"
    /\ mine_in.outage # "none"
    /\ mine_in.limit > Len(reddit.subs)
\* The search ran to its end.
SearchCompleted ==
    /\ mine_out # Pending
    /\ mine_out.t = "ret"
    /\ ~ServiceFailed

\* C7: find_related_discussions returns at most 5 references, each with a
\* text longer than 50 characters and a popularity score greater than 10.
C7_AtMostFiveFiltered ==
    (mine_out # Pending /\ mine_out.t = "ret") =>
        /\ Len(mine_out.v) <= 5
        /\ \A i \in 1..Len(mine_out.v) :
             TextLen(mine_out.v[i].comment) > 50 /\ mine_out.v[i].score > 10

\* More than five comments passed the filter, five references came back, and
\* one of them is a text cut to the 300 characters a reference keeps.
C7_Witness ==
    /\ SearchCompleted
    /\ Cardinality(Candidates) > 5
    /\ Len(mine_out.v) = 5
    /\ \E i \in 1..5 : TextLen(mine_out.v[i].comment) = 300

\* C8: the returned sequence is ordered by popularityScore + 10*awardCount,
\* non-increasing, and is the top 5 of the comments that passed the filter
\* (those of the first five top-level comments of each yielded submission):
\* it has min(5, number passed) entries, each rank value occurs in it no
\* more often than among the passed comments, and every passed comment
\* ranking strictly above a returned one is returned.
C8_RankedTopFive ==
    SearchCompleted =>
        LET out == mine_out.v
            InOut(r) == Cardinality({i \in 1..Len(out) : ReferenceRank(out[i]) = r})
            InAll(r) == Cardinality({p \in Candidates : CandidateRank(p) = r})
        IN  /\ \A i \in 1..Len(out) - 1 :
                 ReferenceRank(out[i]) >= ReferenceRank(out[i + 1])
            /\ Len(out) = Min(5, Cardinality(Candidates))
            /\ \A i \in 1..Len(out) : InOut(ReferenceRank(out[i])) <= InAll(ReferenceRank(out[i]))
            /\ \A p \in Candidates :
                 (\E i \in 1..Len(out) : CandidateRank(p) > ReferenceRank(out[i]))
                     => InOut(CandidateRank(p)) = InAll(CandidateRank(p))

\* Six or more comments passed, a lower-scored but awarded one is returned
\* first, and a passed comment of the lowest rank was left out.
C8_Witness ==
    /\ SearchCompleted
    /\ Cardinality(Candidates) > 5
    /\ Len(mine_out.v) = 5
    /\ mine_out.v[1].score < mine_out.v[5].score
    /\ ReferenceRank(mine_out.v[1]) > ReferenceRank(mine_out.v[5])
    /\ reddit.subs[1].comments # <<>>
    /\ reddit.subs[1].comments[1] = Upvoted

\* C9: when the search or the expansion of a submission's comments fails,
\* also after references were collected, find_related_discussions returns
\* an empty sequence and raises nothing.
C9_FailureReturnsEmpty ==
    ( /\ mine_out # Pending
      /\ mine_in.outage # "none"
      /\ mine_in.limit > Len(reddit.subs)
      /\ \A i \in 1..Min(3, Len(mine_in.keywords)) : mine_in.keywords[i].t = "str" )
    => mine_out = Ret(<<>>)

\* The expansion of a later submission failed after comments of the earlier
\* ones had passed the filter.
C9_Witness ==
    /\ ServiceFailed
    /\ mine_in.outage = "expand"
    /\ Candidates # {}
    /\ mine_out = Ret(<<>>)

\* The rules of the cascade, read off the text itself.
HasToken(text, lexicon) == \E i \in 1..Len(text) : LowerWord(text[i].w) \in lexicon
Rule1 == HasToken(cls_in, {"stupid", "wrong", "disagree", "ridiculous"})
Rule2 == HasToken(cls_in, {"lol", "funny", "joke", "haha", ":joy:"})
Rule3 == Len(SelectSeq(cls_in, LAMBDA a : a.w = "?")) >= 2
Rule4 == TextLen(cls_in) > 200

AllSpace(text) == \A j \in 1..Len(text) : text[j] = "space"
NonSpace(text) == SelectSeq(text, LAMBDA piece : piece # "space")
\* whitespace, an opening fence with "json" right after it or without it,
\* whitespace
OpeningFence(text) ==
    \/ NonSpace(text) = <<"fence">>
    \/ /\ NonSpace(text) = <<"fence", "json">>
       /\ \E j \in 1..Len(text) - 1 : text[j] = "fence" /\ text[j + 1] = "json"
\* whitespace, and a closing fence or none
ClosingFence(text) == NonSpace(text) \in {<<>>, <<"fence">>}

\* The response is a JSON object: the call answered with a text that is one
\* serialised object, bare or after an opening code fence, with whitespace
\* around it.
IsJsonObject(response) ==
    /\ response.t = "message"
    /\ response.value.t = "dict"
    /\ \E i \in 1..Len(response.text) :
         LET before == SubSeq(response.text, 1, i - 1)
             after == SubSeq(response.text, i + 1, Len(response.text))
         IN  /\ response.text[i] = "value"
             /\ \/ AllSpace(before) /\ AllSpace(after)
                \/ OpeningFence(before) /\ ClosingFence(after)

\* C3: analyze_news never raises, and for a failed text-generation call or
\* a response that is not a parseable JSON object it returns the analysis
\* with its four point-lists empty and the non-empty 'analysis failed'
\* summary.
C3_AnalyzeNeverRaises ==
    ana_out # Pending =>
        /\ ana_out.t = "ret"
        /\ ~IsJsonObject(ana_in) =>
             /\ ana_out.v.humor_points = PyList(<<>>)
             /\ ana_out.v.criticism_points = PyList(<<>>)
             /\ ana_out.v.core_viewpoints = PyList(<<>>)
             /\ ana_out.v.controversial_points = PyList(<<>>)
             /\ ana_out.v.summary = PyStr("analysis failed")
             /\ ana_out.v.summary # PyStr("")

\* A fenced JSON array came back: it decodes, is no object, and the
\* degraded analysis is returned.
C3_Witness ==
    /\ ana_in.t = "message"
    /\ ana_in.value.t = "list"
    /\ ana_in.text = <<"fence", "json", "space", "value", "space", "fence">>
    /\ ana_out = Ret(DegradedAnalysis)

\* ------------------------------------------------- claims C1, C2, C4, C5

Called(stage) == \E i \in 1..Len(calls) : calls[i] = stage
StageRank(stage) == CHOOSE k \in 1..Len(Stages) : Stages[k] = stage

\* C1: once the analysis stage has returned, a run of process_news_url never
\* ends with success=false, whatever fails in the search, in a style's
\* generation request, in the image backend or in the local card fallback.
C1_NoFailureAfterAnalysis ==
    (pc = "done" /\ ana_out # Pending /\ ana_out.t = "ret") => result.success

\* C2: when extract_content fails the run returns success=false with an
\* error message that carries the fetch failure, no later stage is called,
\* and the result holds no news, analysis, references or comments.
C2_FetchFailureAborts ==
    (fetch # Pending /\ fetch.t = "error") =>
        /\ pc = "done"
        /\ DOMAIN result = {"success", "error"}
        /\ result.success = FALSE
        /\ result.error[Len(result.error)] = fetch.cause
        /\ calls = <<"extract">>
        /\ ana_out = Pending
        /\ mine_out = Pending
        /\ gen_out = Pending
        /\ generated_comments = <<>>

\* The page answered 404 and the run is over.
C2_Witness ==
    /\ pc = "done"
    /\ fetch = FetchError("404")
    /\ result = FailedResult(<<"extraction failed", "404">>)

\* The analysis stage failed: the call failed or its response was no JSON
\* object, and the degraded analysis came back.
AnalysisStageFailed ==
    /\ ana_out = Ret(DegradedAnalysis)
    /\ ~IsJsonObject(ana_in)
\* The returned result tells that it rests on a degraded analysis.
ResultFlagged ==
    \/ ~result.success
    \/ "degraded" \in DOMAIN result
    \/ "degraded" \in DOMAIN result.analysis

\* C4: generate_comments is never invoked with the degraded-empty analysis
\* of a failed analysis stage as if it were valid: after an analysis
\* failure the run stops before generation, or the returned result is
\* flagged as degraded.
C4_NoGenerationOnFailedAnalysis ==
    (pc = "done" /\ AnalysisStageFailed) => (~Called("generate") \/ ResultFlagged)

\* C5: the stage calls of a run occur in the order extract, analyze, mine,
\* generate, illustrate, each stage starting after the one before it has
\* returned its value; the first four are called at most once and no
\* earlier stage is called after a later one.
C5_StagesInOrder ==
    /\ \A i \in 1..Len(calls) :
         IF i = 1 THEN calls[i] = "extract"
         ELSE \/ StageRank(calls[i]) = StageRank(calls[i - 1]) + 1
              \/ calls[i] = "illustrate" /\ calls[i - 1] = "illustrate"
    /\ Called("analyze") => news_data # Pending
    /\ Called("mine") => (ana_out # Pending /\ ana_out.t = "ret")
    /\ Called("generate") => (mine_out # Pending /\ mine_out.t = "ret")
    /\ Called("illustrate") => (gen_out # Pending /\ gen_out.t = "ret")

\* A run that went through every stage and illustrated two comments.
C5_Witness ==
    /\ pc = "done"
    /\ result.success
    /\ Len(calls) = 6
    /\ calls[5] = "illustrate"
    /\ calls[6] = "illustrate"

\* ------------------------------------------------------------- claim C6

\* C6: two bots built from different configurations share no mutable
\* state: every request of a bot's analyzer, comment generator and image
\* generator is sent with the credential of that bot's own configuration,
\* whatever the other bot writes while it is built or run.
C6_NoSharedCredential ==
    \A b \in BotIds :
        bots[b].sent \subseteq {PyStr(bots[b].config.openai_api_key)}

\* ------------------------------------------- claims C11, C12, C13, C15

StyleIndex(style) == CHOOSE k \in 1..Len(Styles) : Styles[k] = style
\* The comments of a style among those returned.
OfStyle(cmts, style) == {i \in 1..Len(cmts) : cmts[i].style = style}
Returned == gen_out # Pending /\ gen_out.t = "ret"

\* C11: generate_comments returns at most one comment for each of the four
\* styles and none of any other style, sorted by confidence descending,
\* comments of equal confidence in the order of the styles' generation.
C11_OnePerStyleSorted ==
    Returned =>
        /\ \A i \in 1..Len(gen_out.v) : gen_out.v[i].style \in StyleSet
        /\ \A style \in StyleSet : Cardinality(OfStyle(gen_out.v, style)) <= 1
        /\ \A i, j \in 1..Len(gen_out.v) :
               i < j =>
                 LET a == gen_out.v[i]
                     b == gen_out.v[j]
                 IN  /\ ConfidenceKey(a.confidence) >= ConfidenceKey(b.confidence)
                     /\ a.confidence = b.confidence =>
                            StyleIndex(a.style) < StyleIndex(b.style)

\* Three comments came back: the first has the highest confidence although
\* its style is generated last, the other two tie and keep the style order.
C11_Witness ==
    /\ Returned
    /\ Len(gen_out.v) = 3
    /\ gen_out.v[1].style = "question"
    /\ gen_out.v[1].confidence = PyNum(80)
    /\ gen_out.v[2].style = "provocative"
    /\ gen_out.v[3].style = "insightful"
    /\ gen_out.v[2].confidence = PyNum(50)
    /\ gen_out.v[3].confidence = PyNum(50)

\* C12: for any set F of styles whose request fails or whose response
\* cannot be decoded, generate_comments does not raise and returns exactly
\* one comment for every style outside F and none for a style in F.
C12_StyleIsolation ==
    gen_out # Pending =>
        /\ gen_out.t = "ret"
        /\ \A style \in StyleSet :
               Cardinality(OfStyle(gen_out.v, style)) =
                   IF IsJsonObject(gen_in[style]) THEN 1 ELSE 0

\* C13: when the search returns zero submissions find_related_discussions
\* returns an empty sequence, and generate_comments called with it, every
\* request answered with a decodable response, returns one comment for each
\* of the four styles, each request built with empty exemplar text.
C13_EmptySearchStillGenerates ==
    ( /\ reddit.subs = <<>>
      /\ gen_out # Pending
      /\ \A style \in StyleSet : IsJsonObject(gen_in[style]) ) =>
        /\ mine_out = Ret(<<>>)
        /\ gen_out.t = "ret"
        /\ \A style \in StyleSet : Cardinality(OfStyle(gen_out.v, style)) = 1
        /\ Len(requests) = Len(Styles)
        /\ \A k \in 1..Len(requests) :
               /\ requests[k].kind = "generation"
               /\ requests[k].key = Styles[k]
               /\ requests[k].body[1].ref_text = <<>>

\* C15: every comment generate_comments returns has a confidence in [0,1]
\* (0..100 hundredths), whatever the response contains or omits.
C15_ConfidenceInUnitInterval ==
    Returned =>
        \A i \in 1..Len(gen_out.v) :
            /\ gen_out.v[i].confidence.t = "num"
            /\ gen_out.v[i].confidence.v >= 0
            /\ gen_out.v[i].confidence.v <= 100

\* ------------------------------------------------------ claims C14, C19

Illustrated == img_out # Pending
\* The hosted service of the configured provider was called and failed.
BackendFailed ==
    img_in.provider \in HostedProviders /\ img_in.backend \in {"error", "timeout"}
\* The local card can be rendered from the comment.
CardRenders == img_in.card = "ok" /\ img_in.comment.content.t = "str"

\* C14: generate_comment_image never raises; when the configured backend
\* call fails it returns the locally rendered card, a non-empty image
\* reference, and it returns None only when the card rendering fails.
C14_ImageNeverRaises ==
    Illustrated =>
        /\ img_out.outcome.t = "ret"
        /\ (BackendFailed /\ CardRenders) =>
               /\ img_out.outcome.v.t = "str"
               /\ img_out.outcome.v.v = "data:image/png;base64"
               /\ img_out.outcome.v.v # ""
        /\ img_out.outcome.v = PyNone => ~CardRenders

\* The flux service timed out and the card came back.
C14_Witness ==
    /\ Illustrated
    /\ img_in.provider = "flux"
    /\ img_in.backend = "timeout"
    /\ img_out.outcome = Ret(PyStr("data:image/png;base64"))

\* C19: a call of generate_comment_image sends a request to at most one
\* hosted image service, the one of the configured provider, and to no
\* other once that one has failed.
C19_OneBackendPerCall ==
    Illustrated =>
        img_out.requests =
            CASE img_in.provider \in {"gpt5", "dalle"} -> <<"openai.images">>
              [] img_in.provider = "flux" -> <<"api.flux.ai">>
              [] img_in.provider = "firefly" -> <<"firefly-api.adobe.io">>
              [] OTHER -> <<>>

\* The firefly service failed: it alone was called, and the card came back.
C19_Witness ==
    /\ Illustrated
    /\ img_in.provider = "firefly"
    /\ img_in.backend = "error"
    /\ img_out.requests = <<"firefly-api.adobe.io">>
    /\ img_out.outcome = Ret(PyStr("data:image/png;base64"))

\* ------------------------------------------------------------ claim C16

\* C16: export_result leaves the result passed in as it was, whether the
\* write succeeds or fails, and a write failure reaches the caller as an
\* exception.
C16_ExportLeavesResult ==
    export_out # Pending =>
        /\ export_out.result = export_in.result
        /\ export_in.disk = "denied" => export_out.outcome.t = "raise"
        /\ export_in.disk = "ok" => export_out.outcome = Ret(PyNone)

\* The file of a successful result with comments could not be opened: the
\* call raised and the result still holds its comments.
C16_Witness ==
    /\ export_out # Pending
    /\ export_in.disk = "denied"
    /\ export_in.result.success
    /\ Len(export_in.result.generated_comments) >= 2
    /\ export_out.outcome = Raise("OSError")
    /\ export_out.result.generated_comments = export_in.result.generated_comments

\* ------------------------------------------------------------ claim C17

HasParagraph(page) == \E i \in 1..Len(page) : page[i].para

\* C17: for every page holding at least one paragraph element the body
\* text _extract_article_text returns has a length greater than 0.
C17_ParagraphGivesText ==
    (article_text # Pending /\ HasParagraph(soup)) =>
        TextLen(article_text.v) > 0

\* ------------------------------------------------------------ claim C18

SameRequest(a, b) == a.kind = b.kind /\ a.key = b.key /\ a.item = b.item
Sent(kind) == {i \in 1..Len(requests) : requests[i].kind = kind}

\* C18: within a run no external call is made twice: at most one document
\* fetch, one analysis request, one search, one generation request per
\* style and one hosted image request per comment.
C18_NoRetry ==
    /\ \A i, j \in 1..Len(requests) :
           i < j => ~SameRequest(requests[i], requests[j])
    /\ Cardinality(Sent("fetch")) <= 1
    /\ Cardinality(Sent("analysis")) <= 1
    /\ Cardinality(Sent("search")) <= 1
    /\ \A i, j \in Sent("generation") : i # j => requests[i].key # requests[j].key
    /\ \A i, j \in Sent("image") : i # j => requests[i].item # requests[j].item

\* A finished run whose analysis request and whose witty request failed:
\* each was sent once, and so was the image request of every comment.
C18_Witness ==
    /\ pc = "done"
    /\ result.success
    /\ ana_in = ApiError
    /\ gen_in["witty"] = ApiError
    /\ Cardinality(Sent("analysis")) = 1
    /\ Cardinality(Sent("generation")) = 4
    /\ Cardinality(Sent("image")) = 3

\* ------------------------------------------------------------ claim C20

\* The text is one value inside code fences: an opening fence with or
\* without "json", the value, a closing fence.
Fenced(text) ==
    \E i \in 1..Len(text) :
        /\ text[i] = "value"
        /\ OpeningFence(SubSeq(text, 1, i - 1))
        /\ NonSpace(SubSeq(text, i + 1, Len(text))) = <<"fence">>
FieldOr(value, key, default) ==
    IF key \in DOMAIN value.v THEN value.v[key] ELSE default

\* C20: for a response that is a JSON object inside code fences,
\* analyze_news and _generate_single_comment return what they return for
\* the object sent bare: the analysis and the comment made of its fields.
C20_FencesUnwrapped ==
    /\ (ana_out # Pending /\ Fenced(ana_in.text)) =>
           ana_out = Ret(NewsAnalysis(
                         FieldOr(ana_in.value, "humor_points", PyList(<<>>)),
                         FieldOr(ana_in.value, "criticism_points", PyList(<<>>)),
                         FieldOr(ana_in.value, "core_viewpoints", PyList(<<>>)),
                         FieldOr(ana_in.value, "controversial_points", PyList(<<>>)),
                         PyList(<<>>),
                         FieldOr(ana_in.value, "summary", PyStr(""))))
    /\ (gen_out # Pending /\ Fenced(gen_in.response.text)) =>
           gen_out = Ret(GeneratedComment(
                         FieldOr(gen_in.response.value, "comment", PyStr("")),
                         gen_in.style,
                         FieldOr(gen_in.response.value, "image_prompt", PyStr("")),
                         FieldOr(gen_in.response.value, "confidence", PyNum(50))))

\* A comment object between a bare opening fence and a closing fence, with
\* whitespace around: both decoders have read it.
C20_Witness ==
    /\ ana_in.text = <<"space", "fence", "space", "value", "fence", "space">>
    /\ ana_in.value = QuipJson
    /\ ana_out = Ret(NewsAnalysis(PyList(<<>>), PyList(<<>>), PyList(<<>>),
                                  PyList(<<>>), PyList(<<>>), PyStr("")))
    /\ gen_out # Pending
    /\ gen_out.v.content = PyStr("quip")

\* ------------------------------------------------------ claims C21, C22

Finished == pc = "done"
\* The image generator returned None for the i-th comment.
ImageAbsent(i) ==
    /\ "image_url" \in DOMAIN generated_comments[i]
    /\ generated_comments[i].image_url = PyNone

\* C21: in every result with success=true every comment carries a non-null
\* image reference; a run in which the image generator returned None for a
\* comment does not end in a successful result.
C21_SuccessHasImages ==
    /\ (Finished /\ result.success) =>
           \A i \in 1..Len(result.generated_comments) :
               /\ "image_url" \in DOMAIN result.generated_comments[i]
               /\ result.generated_comments[i].image_url # PyNone
               /\ result.generated_comments[i].image_url.t = "str"
    /\ (\E i \in 1..Len(generated_comments) : ImageAbsent(i)) =>
           (Finished /\ ~result.success)

\* A successful result with two comments or more, each with its image: the
\* provider is 'local', so every image is the locally rendered card.
C21_Witness ==
    /\ Finished
    /\ result.success
    /\ Provider(config) = "local"
    /\ Len(result.generated_comments) >= 2
    /\ \A i \in 1..Len(result.generated_comments) :
           result.generated_comments[i].image_url = PyStr("data:image/png;base64")

\* Fetching and analysis succeeded and each of the four generation
\* requests was sent and failed.
AllStylesFailed ==
    /\ fetch # Pending
    /\ fetch.t = "page"
    /\ IsJsonObject(ana_in)
    /\ gen_in # Pending
    /\ Cardinality(Sent("generation")) = Len(Styles)
    /\ \A style \in StyleSet : gen_in[style].t = "error"

\* C22: when fetching and analysis succeed and the generation request
\* fails for all four styles, the run returns success=true with an empty
\* comment sequence and the image generator is not invoked.
C22_NoCommentsNoImages ==
    AllStylesFailed =>
        /\ ~Called("illustrate")
        /\ Sent("image") = {}
        /\ pc \in {"illustrate", "done"}
        /\ Finished =>
               /\ result.success
               /\ result.generated_comments = <<>>

\* The run of a page with a full analysis whose four generation requests
\* failed has returned.
C22_Witness ==
    /\ AllStylesFailed
    /\ Finished
    /\ ana_in.value = FullAnalysisJson
    /\ result.success
    /\ result.generated_comments = <<>>
    /\ calls = <<"extract", "analyze", "mine", "generate">>

\* ------------------------------------------------------------ claim C23

\* The configuration names a provider, the value None included.
ProviderConfigured == "image_provider" \in DOMAIN img_in.config
\* The configuration names none of the four hosted providers.
NoHostedProviderConfigured ==
    ProviderConfigured => img_in.config.image_provider \notin HostedProviders

====
